---- MODULE Spec2Model ----
(***************************************************************************)
(* The upload / transform / download controller of backend/static/app.js.  *)
(*                                                                         *)
(* State: the two module variables (currentMode, selectedFile), the DOM    *)
(* fields the handlers read or write (file input, file-name label, submit  *)
(* button, password field, loading overlay, notification box), the pending *)
(* setTimeout callbacks, the processFile calls suspended at an await, and   *)
(* the last download triggered through the temporary link.                 *)
(*                                                                         *)
(* Strings the code inspects character by character (file names, the       *)
(* Content-Disposition header) are sequences of one-character strings.     *)
(* CSS classes and the mode-dependent captions (drag-over, active,         *)
(* btnText, the hero header, the password field's type attribute) are       *)
(* presentation that no handler's decision reads; they are left out.       *)
(***************************************************************************)
EXTENDS Integers, Sequences, FiniteSets, TLC

VARIABLES
    currentMode,      \* app.js:2
    selectedFile,     \* app.js:3
    inputFiles,       \* fileInput.files
    fileNameDisplay,  \* fileNameDisplay.textContent
    submitDisabled,   \* submitBtn.disabled
    password,         \* passwordInput.value
    loading,          \* loadingOverlay.style.display = 'flex'
    notification,     \* notification.textContent / className / style.display
    timers,           \* pending setTimeout callbacks of showNotification
    inflight,         \* processFile calls suspended at an await
    download          \* last download triggered by a.click()

vars == <<currentMode, selectedFile, inputFiles, fileNameDisplay, submitDisabled,
          password, loading, notification, timers, inflight, download>>

----------------------------------------------------------------------------
(* Bounds *)

MaxInFlight == 2
MaxTimers == 2
MaxFiles == 2
MaxNameLen == 5

----------------------------------------------------------------------------
(* JavaScript values *)

Null == [kind |-> "null"]
Undefined == [kind |-> "undefined"]
File(n) == [kind |-> "file", name |-> n]

\* JavaScript truthiness of selectedFile: null and undefined are falsy, a File is truthy.
Truthy(v) == v.kind = "file"

DotEnc == <<".", "e", "n", "c">>
FilenameEq == <<"f", "i", "l", "e", "n", "a", "m", "e", "=">>
Whitespace == {" ", "\t"}

\* String.prototype.indexOf: 0-based index of the first occurrence, -1 when absent.
IndexOf(s, pat) ==
    LET hits == {i \in 0..(Len(s) - Len(pat)) : SubSeq(s, i + 1, i + Len(pat)) = pat}
    IN IF hits = {} THEN -1 ELSE CHOOSE i \in hits : \A j \in hits : i <= j

\* String.prototype.replace with a string pattern: the first occurrence only.
ReplaceFirst(s, pat, rep) ==
    LET i == IndexOf(s, pat)
    IN IF i = -1 THEN s
       ELSE SubSeq(s, 1, i) \o rep \o SubSeq(s, i + Len(pat) + 1, Len(s))

\* String.prototype.split with a non-empty separator.
RECURSIVE Split(_, _)
Split(s, sep) ==
    LET i == IndexOf(s, sep)
    IN IF i = -1 THEN <<s>>
       ELSE <<SubSeq(s, 1, i)>> \o Split(SubSeq(s, i + Len(sep) + 1, Len(s)), sep)

\* String.prototype.trim.
RECURSIVE Trim(_)
Trim(s) ==
    IF s = <<>> THEN s
    ELSE IF Head(s) \in Whitespace THEN Trim(Tail(s))
    ELSE IF s[Len(s)] \in Whitespace THEN Trim(SubSeq(s, 1, Len(s) - 1))
    ELSE s

\* replace(/['"]/g, ''): every quote character removed.
StripQuotes(s) == SelectSeq(s, LAMBDA c : c \notin {"'", "\""})

----------------------------------------------------------------------------
(* The response of the backend *)

\* A Content-Disposition header as the server builds it; HeaderText is what
\* response.headers.get('Content-Disposition') returns for it.
NoHeader == [present |-> FALSE, hasName |-> FALSE, name |-> <<>>, quote |-> <<>>, params |-> <<>>]
Attachment == <<"a", "t", "t", "a", "c", "h", "m", "e", "n", "t">>
SizeParam == <<";", " ", "s", "i", "z", "e", "=", "1">>

HeaderText(h) ==
    Attachment \o
    (IF h.hasName THEN <<";", " ">> \o FilenameEq \o h.quote \o h.name \o h.quote ELSE <<>>) \o
    h.params

\* DefaultFilename with the extension appended without its dot.
DefaultFilenameNoDot(mode, name) ==
    IF mode = "encrypt" THEN name \o Tail(DotEnc) ELSE ReplaceFirst(name, DotEnc, <<>>)

\* app.js:135-140
DefaultFilename(mode, name) ==
    IF mode = "encrypt" THEN name \o DotEnc ELSE ReplaceFirst(name, DotEnc, <<>>)

DownloadFilename(mode, name, h) ==
    IF h.present /\ HeaderText(h) # <<>> /\ IndexOf(HeaderText(h), FilenameEq) # -1
    THEN StripQuotes(Trim(Split(HeaderText(h), FilenameEq)[2]))
    ELSE DefaultFilename(mode, name)

----------------------------------------------------------------------------
(* Errors and notification texts *)

\* The body of a non-2xx response: text that JSON.parse rejects, or a JSON value.
InvalidJson == [valid |-> FALSE, type |-> "text", hasDetail |-> FALSE, detail |-> ""]
JsonNull == [valid |-> TRUE, type |-> "null", hasDetail |-> FALSE, detail |-> ""]
JsonObject == [valid |-> TRUE, type |-> "object", hasDetail |-> FALSE, detail |-> ""]
JsonDetail(d) == [valid |-> TRUE, type |-> "object", hasDetail |-> TRUE, detail |-> d]
NoBody == [valid |-> FALSE, type |-> "none", hasDetail |-> FALSE, detail |-> ""]

SyntaxErrorMessage == "Unexpected token '<' is not valid JSON"
NullDetailMessage == "Cannot read properties of null (reading 'detail')"
UnknownServerError == "Unknown server error occurred."
CheckConsole == "Check console for details."

\* ErrorDataMessage with the server's detail dropped.
ErrorDataMessageIgnoresDetail(body) ==
    IF ~body.valid THEN SyntaxErrorMessage
    ELSE IF body.type = "null" THEN NullDetailMessage
    ELSE UnknownServerError

\* app.js:128-129: error.message of what the non-2xx branch throws.
ErrorDataMessage(body) ==
    IF ~body.valid THEN SyntaxErrorMessage
    ELSE IF body.type = "null" THEN NullDetailMessage
    ELSE IF body.hasDetail /\ body.detail # "" THEN body.detail
    ELSE UnknownServerError

EmptyMessage == [kind |-> "empty"]
ValidationMessage == [kind |-> "Please select a file and enter a password."]
\* `Failed to process file: ${error.message || 'Check console for details.'}`
FailedMessage(msg) ==
    [kind |-> "Failed to process file: ", detail |-> IF msg # "" THEN msg ELSE CheckConsole]
\* `${mode === 'encrypt' ? 'Encryption' : 'Decryption'} successful! File downloaded as "${filename}".`
SuccessMessage(mode, filename) ==
    [kind |-> " successful! File downloaded as ",
     action |-> IF mode = "encrypt" THEN "Encryption" ELSE "Decryption",
     filename |-> filename]

Placeholder == [kind |-> "Drag & drop a file or click to upload"]
FileSelectedLabel(n) == [kind |-> "File Selected: ", name |-> n]

\* The last download: the name given to the temporary link, the call's file, mode and
\* response header, and the temporary object URL: its state when the link was clicked
\* (clicked) and when the handler returned (url).
NoDownload ==
    [triggered |-> FALSE, filename |-> <<>>, file |-> <<>>, mode |-> "", header |-> NoHeader,
     clicked |-> "none", url |-> "none"]

\* DownloadOps with the URL revoked before the click.
DownloadOpsRevokeFirst == <<"createObjectURL", "revokeObjectURL", "click">>

\* app.js:146-155: the calls that touch the object URL, in program order.
DownloadOps == <<"createObjectURL", "click", "revokeObjectURL">>

ApplyOp(st, op) ==
    CASE op = "createObjectURL" -> [st EXCEPT !.url = "live"]
      [] op = "click" -> [st EXCEPT !.clicked = st.url]
      [] op = "revokeObjectURL" -> [st EXCEPT !.url = "revoked"]

RECURSIVE RunOps(_, _)
RunOps(st, ops) == IF ops = <<>> THEN st ELSE RunOps(ApplyOp(st, Head(ops)), Tail(ops))

\* The object URL after the synchronous block of lines 146-155.
TriggerDownload == RunOps([clicked |-> "none", url |-> "none"], DownloadOps)

----------------------------------------------------------------------------
(* Initial state *)

\* What the page's markup gives the elements before any handler has run.
InitialDom ==
    [submitDisabled |-> TRUE, password |-> "",
     loading |-> FALSE,
     notification |-> [message |-> EmptyMessage, type |-> "", display |-> FALSE],
     fileNameDisplay |-> Placeholder]

Init ==
    /\ currentMode = "encrypt"
    /\ selectedFile = Null
    /\ inputFiles = <<>>
    /\ fileNameDisplay = InitialDom.fileNameDisplay
    /\ submitDisabled = InitialDom.submitDisabled
    /\ password = InitialDom.password
    /\ loading = InitialDom.loading
    /\ notification = InitialDom.notification
    /\ timers = 0
    /\ inflight = <<>>
    /\ download = NoDownload

----------------------------------------------------------------------------
(* showNotification and its timer, app.js:18-25 *)

ShowNotification(message, type) ==
    /\ timers < MaxTimers
    /\ notification' = [message |-> message, type |-> type, display |-> TRUE]
    /\ timers' = timers + 1

\* Every timer has the same delay, so the oldest pending one fires; its callback hides
\* whatever the box shows (no clearTimeout anywhere).
TimerFire ==
    /\ timers > 0
    /\ timers' = timers - 1
    /\ notification' = [notification EXCEPT !.display = FALSE]
    /\ UNCHANGED <<currentMode, selectedFile, inputFiles, fileNameDisplay, submitDisabled,
                   password, loading, inflight, download>>

----------------------------------------------------------------------------
(* Mode switching, app.js:28-53 *)

\* ModeClick without line 41: the submit button keeps its state.
ModeClickKeepsSubmit(m) ==
    /\ currentMode' = m
    /\ selectedFile' = Null
    /\ inputFiles' = <<>>
    /\ fileNameDisplay' = Placeholder
    /\ UNCHANGED <<submitDisabled, password, loading, notification, timers, inflight, download>>

ModeClick(m) ==
    /\ currentMode' = m
    /\ selectedFile' = Null
    /\ inputFiles' = <<>>
    /\ fileNameDisplay' = Placeholder
    /\ submitDisabled' = TRUE
    /\ UNCHANGED <<password, loading, notification, timers, inflight, download>>

----------------------------------------------------------------------------
(* File handling, app.js:60-84 *)

\* FileChange labelling the box with the last file of the list instead of files[0].
FileChangeShowsLastFile(fs) ==
    /\ inputFiles' = fs
    /\ selectedFile' = IF fs = <<>> THEN Undefined ELSE File(fs[1])
    /\ IF fs # <<>>
       THEN /\ fileNameDisplay' = FileSelectedLabel(fs[Len(fs)])
            /\ submitDisabled' = FALSE
       ELSE /\ fileNameDisplay' = Placeholder
            /\ submitDisabled' = TRUE
    /\ UNCHANGED <<currentMode, password, loading, notification, timers,
                   inflight, download>>

\* The change handler, run with the file input holding the list fs.
FileChange(fs) ==
    /\ inputFiles' = fs
    /\ selectedFile' = IF fs = <<>> THEN Undefined ELSE File(fs[1])
    /\ IF fs # <<>>
       THEN /\ fileNameDisplay' = FileSelectedLabel(fs[1])
            /\ submitDisabled' = FALSE
       ELSE /\ fileNameDisplay' = Placeholder
            /\ submitDisabled' = TRUE
    /\ UNCHANGED <<currentMode, password, loading, notification, timers,
                   inflight, download>>

\* The drop handler stores the dropped list in the input and dispatches 'change'.
Drop(fs) == FileChange(fs)

----------------------------------------------------------------------------
(* Password field *)

PasswordInput(p) ==
    /\ password' = p
    /\ UNCHANGED <<currentMode, selectedFile, inputFiles, fileNameDisplay, submitDisabled, loading, notification, timers, inflight, download>>

----------------------------------------------------------------------------
(* Submission, app.js:94-169 *)

\* A processFile call suspended at `await fetch` (pc "fetch"), `await response.json()`
\* (pc "json") or `await response.blob()` (pc "blob"), with its arguments and locals.
Flow(file, pw, mode) ==
    [file |-> file, password |-> pw, mode |-> mode, pc |-> "fetch",
     endpoint |-> IF mode = "encrypt" THEN "/encrypt" ELSE "/decrypt",
     body |-> NoBody, header |-> NoHeader, filename |-> <<>>]

Remove(s, i) == SubSeq(s, 1, i - 1) \o SubSeq(s, i + 1, Len(s))

\* SubmitClick with the guard of line 96 testing the file alone.
SubmitClickNoPasswordCheck ==
    /\ ~submitDisabled
    /\ IF Truthy(selectedFile)
       THEN /\ Len(inflight) < MaxInFlight
            /\ loading' = TRUE
            /\ submitDisabled' = TRUE
            /\ inflight' = Append(inflight, Flow(selectedFile, password, currentMode))
            /\ UNCHANGED <<notification, timers>>
       ELSE /\ ShowNotification(ValidationMessage, "error")
            /\ UNCHANGED <<loading, submitDisabled, inflight>>
    /\ UNCHANGED <<currentMode, selectedFile, inputFiles, fileNameDisplay, password, download>>

\* The click handler; a disabled button dispatches no click.  The accepted branch runs
\* processFile up to its first await.
SubmitClick ==
    /\ ~submitDisabled
    /\ IF Truthy(selectedFile) /\ password # ""
       THEN /\ Len(inflight) < MaxInFlight
            /\ loading' = TRUE
            /\ submitDisabled' = TRUE
            /\ inflight' = Append(inflight, Flow(selectedFile, password, currentMode))
            /\ UNCHANGED <<notification, timers>>
       ELSE /\ ShowNotification(ValidationMessage, "error")
            /\ UNCHANGED <<loading, submitDisabled, inflight>>
    /\ UNCHANGED <<currentMode, selectedFile, inputFiles, fileNameDisplay, password, download>>

\* Finally without line 167: the password stays in the field.
FinallyKeepsPassword(i) ==
    /\ loading' = FALSE
    /\ submitDisabled' = FALSE
    /\ password' = password
    /\ inflight' = Remove(inflight, i)

\* Finally without line 164: the overlay stays up.
FinallyKeepsOverlay(i) ==
    /\ loading' = loading
    /\ submitDisabled' = FALSE
    /\ password' = ""
    /\ inflight' = Remove(inflight, i)

\* finally, app.js:162-168: the call i is over.
Finally(i) ==
    /\ loading' = FALSE
    /\ submitDisabled' = FALSE
    /\ password' = ""
    /\ inflight' = Remove(inflight, i)

\* Fail with the catch block only logging to the console.
FailSilently(i, msg) ==
    /\ Finally(i)
    /\ UNCHANGED <<currentMode, selectedFile, inputFiles, fileNameDisplay,
                   notification, timers, download>>

\* catch then finally, app.js:159-168.
Fail(i, msg) ==
    /\ ShowNotification(FailedMessage(msg), "error")
    /\ Finally(i)
    /\ UNCHANGED <<currentMode, selectedFile, inputFiles, fileNameDisplay,
                   download>>

\* fetch rejects: a transport failure.
FetchReject(i, msg) ==
    /\ inflight[i].pc = "fetch"
    /\ Fail(i, msg)

\* fetch resolves with a non-2xx status; the call awaits response.json().
FetchNotOk(i, b) ==
    /\ inflight[i].pc = "fetch"
    /\ inflight' = [inflight EXCEPT ![i].pc = "json", ![i].body = b]
    /\ UNCHANGED <<currentMode, selectedFile, inputFiles, fileNameDisplay, submitDisabled,
                   password, loading, notification, timers, download>>

\* response.json() settles: it rejects on a body that is not JSON, and else line 129 throws.
JsonSettle(i) ==
    /\ inflight[i].pc = "json"
    /\ Fail(i, ErrorDataMessage(inflight[i].body))

\* FetchOk reading the module variable currentMode instead of the parameter mode.
FetchOkUsesCurrentMode(i, h) ==
    /\ inflight[i].pc = "fetch"
    /\ inflight' = [inflight EXCEPT
                      ![i].pc = "blob",
                      ![i].header = h,
                      ![i].filename = DownloadFilename(currentMode, inflight[i].file.name, h)]
    /\ UNCHANGED <<currentMode, selectedFile, inputFiles, fileNameDisplay, submitDisabled,
                   password, loading, notification, timers, download>>

\* fetch resolves with a 2xx status and the header h; the filename is derived and the
\* call awaits response.blob().
FetchOk(i, h) ==
    /\ inflight[i].pc = "fetch"
    /\ inflight' = [inflight EXCEPT
                      ![i].pc = "blob",
                      ![i].header = h,
                      ![i].filename = DownloadFilename(inflight[i].mode, inflight[i].file.name, h)]
    /\ UNCHANGED <<currentMode, selectedFile, inputFiles, fileNameDisplay, submitDisabled,
                   password, loading, notification, timers, download>>

\* BlobOk releasing the submitted file once it has been downloaded.
BlobOkClearsFile(i) ==
    /\ inflight[i].pc = "blob"
    /\ download' = [triggered |-> TRUE, filename |-> inflight[i].filename,
                    file |-> inflight[i].file.name, mode |-> inflight[i].mode,
                    header |-> inflight[i].header,
                    clicked |-> TriggerDownload.clicked, url |-> TriggerDownload.url]
    /\ ShowNotification(SuccessMessage(inflight[i].mode, inflight[i].filename), "success")
    /\ Finally(i)
    /\ selectedFile' = Null
    /\ UNCHANGED <<currentMode, inputFiles, fileNameDisplay>>

\* response.blob() resolves: the download is triggered, the success notification shown.
BlobOk(i) ==
    /\ inflight[i].pc = "blob"
    /\ download' = [triggered |-> TRUE, filename |-> inflight[i].filename,
                    file |-> inflight[i].file.name, mode |-> inflight[i].mode,
                    header |-> inflight[i].header,
                    clicked |-> TriggerDownload.clicked, url |-> TriggerDownload.url]
    /\ ShowNotification(SuccessMessage(inflight[i].mode, inflight[i].filename), "success")
    /\ Finally(i)
    /\ UNCHANGED <<currentMode, selectedFile, inputFiles, fileNameDisplay>>

\* Reading the body fails while the call awaits response.json() or response.blob().
BodyReject(i, msg) ==
    /\ inflight[i].pc \in {"json", "blob"}
    /\ Fail(i, msg)

----------------------------------------------------------------------------
(* The page under every interleaving of events *)

Modes == {"encrypt", "decrypt"}
Passwords == {"", "pw"}
FileNames == {<<"e", ".", "e", "n", "c">>}
FileLists == UNION {[1..k -> FileNames] : k \in 0..MaxFiles}
QuotedHeader(n) == [present |-> TRUE, hasName |-> TRUE, name |-> n, quote |-> <<"\"">>, params |-> <<>>]
Headers == {NoHeader}
Bodies == {JsonDetail("Incorrect password")}
TransportErrors == {"Failed to fetch"}

Next ==
    \/ \E m \in Modes : ModeClick(m)
    \/ \E fs \in FileLists : FileChange(fs)
    \/ \E fs \in FileLists : Drop(fs)
    \/ \E p \in Passwords : PasswordInput(p)
    \/ SubmitClick
    \/ \E i \in 1..Len(inflight) : \E msg \in TransportErrors : FetchReject(i, msg)
    \/ \E i \in 1..Len(inflight) : \E b \in Bodies : FetchNotOk(i, b)
    \/ \E i \in 1..Len(inflight) : JsonSettle(i)
    \/ \E i \in 1..Len(inflight) : \E h \in Headers : FetchOk(i, h)
    \/ \E i \in 1..Len(inflight) : BlobOk(i)
    \/ \E i \in 1..Len(inflight) : \E msg \in TransportErrors : BodyReject(i, msg)
    \/ TimerFire

Spec == Init /\ [][Next]_vars

----------------------------------------------------------------------------
(* The page when every request settles and every timer fires *)

\* Any continuation of the processFile call at position i of inflight.
FlowStep(i) ==
    /\ i <= Len(inflight)
    /\ \/ \E msg \in TransportErrors : FetchReject(i, msg)
       \/ \E b \in Bodies : FetchNotOk(i, b)
       \/ JsonSettle(i)
       \/ \E h \in Headers : FetchOk(i, h)
       \/ BlobOk(i)
       \/ \E msg \in TransportErrors : BodyReject(i, msg)

\* Every event of the page, the user picking at most one file at a time.
LiveNext ==
    \/ \E m \in Modes : ModeClick(m)
    \/ \E fs \in {<<>>} \cup {<<n>> : n \in FileNames} : FileChange(fs)
    \/ PasswordInput("pw")
    \/ SubmitClick
    \/ \E i \in 1..Len(inflight) : FlowStep(i)
    \/ TimerFire

\* The transport settles every fetch and every body read, and the event loop runs every
\* timer callback; the user's events are under no obligation.
LiveSpec ==
    /\ Init
    /\ [][LiveNext]_vars
    /\ SF_vars(\E i \in 1..MaxInFlight : FlowStep(i))
    /\ WF_vars(TimerFire)

----------------------------------------------------------------------------
(* One submission, from a filled-in form, over every file name and response *)

Alphabet == {".", "e", "n", "c"}
AllNames == UNION {[1..k -> Alphabet] : k \in 1..MaxNameLen}
HeaderNames == {<<"r", ".", "t">>}
AllHeaders ==
    {NoHeader, [NoHeader EXCEPT !.present = TRUE]} \cup
    {[present |-> TRUE, hasName |-> TRUE, name |-> n, quote |-> q, params |-> p] :
        n \in HeaderNames, q \in {<<>>, <<"\"">>}, p \in {<<>>, SizeParam}}
AllBodies == {InvalidJson, JsonNull, JsonObject, JsonDetail(""), JsonDetail("Incorrect password")}

\* The page after a mode click, a file selection and a typed password.
FlowInit ==
    /\ currentMode \in Modes
    /\ \E n \in AllNames :
          /\ selectedFile = File(n)
          /\ inputFiles = <<n>>
          /\ fileNameDisplay = FileSelectedLabel(n)
    /\ submitDisabled = FALSE
    /\ password = "pw"
    /\ loading = InitialDom.loading
    /\ notification = InitialDom.notification
    /\ timers = 0
    /\ inflight = <<>>
    /\ download = NoDownload

FlowNext ==
    \/ SubmitClick
    \/ \E i \in 1..Len(inflight) : \E msg \in TransportErrors : FetchReject(i, msg)
    \/ \E i \in 1..Len(inflight) : \E b \in AllBodies : FetchNotOk(i, b)
    \/ \E i \in 1..Len(inflight) : JsonSettle(i)
    \/ \E i \in 1..Len(inflight) : \E h \in AllHeaders : FetchOk(i, h)
    \/ \E i \in 1..Len(inflight) : BlobOk(i)
    \/ \E i \in 1..Len(inflight) : \E msg \in TransportErrors : BodyReject(i, msg)
    \/ TimerFire

FlowSpec == FlowInit /\ [][FlowNext]_vars

----------------------------------------------------------------------------
(* The page with two different files to choose from *)

TwoNames == {<<"e">>, <<"c", ".", "e", "n", "c">>}
TwoFileLists == UNION {[1..k -> TwoNames] : k \in 0..MaxFiles}

\* The user picks one file at a time, switches mode and submits, and every request
\* succeeds without a Content-Disposition header.
TwoFileNext ==
    \/ \E m \in Modes : ModeClick(m)
    \/ \E n \in TwoNames : FileChange(<<n>>)
    \/ PasswordInput("pw")
    \/ SubmitClick
    \/ \E i \in 1..Len(inflight) : FetchOk(i, NoHeader)
    \/ \E i \in 1..Len(inflight) : BlobOk(i)
    \/ TimerFire

TwoFileSpec == Init /\ [][TwoFileNext]_vars

\* Selections and drops of several files at once, mode clicks, password edits and
\* submit clicks, with requests that fail in transport.
FileNext ==
    \/ \E m \in Modes : ModeClick(m)
    \/ \E fs \in TwoFileLists : FileChange(fs)
    \/ \E fs \in TwoFileLists : Drop(fs)
    \/ \E p \in Passwords : PasswordInput(p)
    \/ SubmitClick
    \/ \E i \in 1..Len(inflight) : \E msg \in TransportErrors : FetchReject(i, msg)
    \/ TimerFire

FileSpec == Init /\ [][FileNext]_vars

----------------------------------------------------------------------------
(* Properties *)

\* C1: at most one submission request is in flight at any time.
AtMostOneInFlight == Len(inflight) <= 1

\* C2: while no request is in flight, the submit control is enabled if and only if a
\* file is selected.
EnabledIffFileSelected ==
    inflight = <<>> => (~submitDisabled <=> Truthy(selectedFile))

\* C3: a submit click made with no file selected or with an empty password shows an
\* error notification, issues no request, and leaves mode, selected file, password and
\* the submit control's state unchanged.
InvalidSubmitOnlyNotifies ==
    [][(SubmitClick /\ (~Truthy(selectedFile) \/ password = "")) =>
          /\ notification' = [message |-> ValidationMessage, type |-> "error", display |-> TRUE]
          /\ inflight' = inflight
          /\ UNCHANGED <<currentMode, selectedFile, password, submitDisabled>>]_vars

\* The click was made with the button enabled and no file selected.
InvalidSubmitNotified ==
    /\ notification = [message |-> ValidationMessage, type |-> "error", display |-> TRUE]
    /\ inflight = <<>>
    /\ ~submitDisabled
    /\ ~Truthy(selectedFile)

\* C4: right after a submission resolves (success, non-2xx response or transport
\* failure), the password field is empty, the overlay hidden, the submit control enabled.
ResolvedSubmissionResetsForm ==
    [][Len(inflight') < Len(inflight) =>
          /\ password' = ""
          /\ ~loading'
          /\ ~submitDisabled']_vars

SubmissionResolved ==
    /\ notification.type \in {"success", "error"}
    /\ notification.message # ValidationMessage
    /\ notification.display
    /\ inflight = <<>>
    /\ password = ""
    /\ ~loading
    /\ ~submitDisabled

\* C5: right after a mode click, also while a request is in flight, no file is
\* selected, the submit control is disabled and currentMode is the clicked mode.
ModeClickClearsFile ==
    [][\A m \in Modes : ModeClick(m) =>
          /\ ~Truthy(selectedFile')
          /\ submitDisabled'
          /\ currentMode' = m]_vars

ModeClickedInFlight ==
    /\ currentMode = "decrypt"
    /\ selectedFile = Null
    /\ submitDisabled
    /\ inflight # <<>>

\* C6: a non-2xx response whose body is not JSON, or is JSON without a (non-empty)
\* detail, is reported with the generic message 'Unknown server error occurred.'.
NoDetailShowsGenericMessage ==
    [][\A i \in 1..Len(inflight) :
          (/\ JsonSettle(i)
           /\ \/ ~inflight[i].body.valid
              \/ ~inflight[i].body.hasDetail
              \/ inflight[i].body.detail = "") =>
          notification' = [message |-> FailedMessage(UnknownServerError), type |-> "error",
                           display |-> TRUE]]_vars

\* C7: a non-2xx response whose JSON body has a non-empty string detail D is reported
\* by an error notification whose text contains D, and triggers no download.
DetailIsShown ==
    [][\A i \in 1..Len(inflight) :
          (/\ JsonSettle(i)
           /\ inflight[i].body.valid
           /\ inflight[i].body.hasDetail
           /\ inflight[i].body.detail # "") =>
          /\ notification'.type = "error"
          /\ notification'.display
          /\ notification'.message = [kind |-> "Failed to process file: ",
                                       detail |-> inflight[i].body.detail]
          /\ download' = download]_vars

DetailShown ==
    /\ notification.type = "error"
    /\ notification.display
    /\ notification.message = [kind |-> "Failed to process file: ", detail |-> "Incorrect password"]
    /\ ~download.triggered

\* The response suggests no filename: no Content-Disposition header, or one without a
\* filename parameter.
NoSuggestedName(h) == ~(h.present /\ h.hasName)

EndsWithDotEnc(n) == Len(n) >= Len(DotEnc) /\ SubSeq(n, Len(n) - Len(DotEnc) + 1, Len(n)) = DotEnc

\* C8: in decrypt mode with no suggested filename, the download is named as the
\* original file with a trailing '.enc' stripped, and unchanged when it has none.
DecryptStripsTrailingEnc ==
    (download.triggered /\ download.mode = "decrypt" /\ NoSuggestedName(download.header)) =>
        download.filename =
            IF EndsWithDotEnc(download.file)
            THEN SubSeq(download.file, 1, Len(download.file) - Len(DotEnc))
            ELSE download.file

\* C9: in encrypt mode with no suggested filename, the download is named as the
\* original file followed by '.enc'.
EncryptAppendsEnc ==
    (download.triggered /\ download.mode = "encrypt" /\ NoSuggestedName(download.header)) =>
        /\ Len(download.filename) = Len(download.file) + 4
        /\ SubSeq(download.filename, 1, Len(download.file)) = download.file
        /\ SubSeq(download.filename, Len(download.file) + 1, Len(download.file) + 4)
              = <<".", "e", "n", "c">>

EncryptedDownloaded ==
    /\ download.triggered
    /\ download.mode = "encrypt"
    /\ ~download.header.present
    /\ Len(download.file) = 5
    /\ download.filename = download.file \o <<".", "e", "n", "c">>

\* C10: when the response's Content-Disposition suggests a filename N, quoted or not,
\* with or without further parameters, the download is named exactly N.
SuggestedNameIsUsed ==
    (download.triggered /\ download.header.present /\ download.header.hasName) =>
        download.filename = download.header.name

\* C11: a notification is hidden only by the timer its own showNotification call
\* started.  The pending timers fire oldest first and the box shows the latest
\* notification, whose timer is the newest: the timer that fires is the shown
\* notification's own exactly when it is the only one pending.
HiddenOnlyByOwnTimer ==
    [][(TimerFire /\ notification.display) => timers = 1]_vars

\* C12 as claimed: every accepted submission is eventually followed by a state where the
\* overlay is hidden and a new submission can be made, the submit control enabled and a
\* file selected, with nothing left to the user but the password.
ResubmittableWithFile ==
    loading ~> (~loading /\ ~submitDisabled /\ Truthy(selectedFile))

\* C12 amended: every accepted submission is eventually followed by a state where the
\* overlay is hidden, the password field empty and the submit control enabled; the file
\* stays selected through the submission unless a mode click or an empty file selection
\* clears it.
Resubmittable ==
    /\ loading ~> (~loading /\ ~submitDisabled /\ password = "")
    /\ [][(Truthy(selectedFile) /\ ~Truthy(selectedFile')) =>
             ((\E m \in Modes : ModeClick(m)) \/ FileChange(<<>>))]_vars

ResubmittableReached ==
    /\ download.triggered
    /\ inflight = <<>>
    /\ ~loading
    /\ ~submitDisabled
    /\ password = ""
    /\ Truthy(selectedFile)

\* C13: the object URL created for a downloaded blob is live when the temporary link is
\* clicked and revoked when the call that created it finishes; no finished call leaves
\* an unreleased object URL.
ObjectUrlReleased ==
    /\ download.url \in {"none", "revoked"}
    /\ download.triggered => (download.clicked = "live" /\ download.url = "revoked")
    /\ ~download.triggered => (download.clicked = "none" /\ download.url = "none")

ObjectUrlRevokedAfterClick ==
    /\ download.triggered
    /\ download.clicked = "live"
    /\ download.url = "revoked"
    /\ loading
    /\ Len(inflight) = 1

\* C14: while a request is in flight the submit control is disabled and the loading
\* overlay is shown, whatever other events occur.
BusyWhileInFlight ==
    inflight # <<>> => (submitDisabled /\ loading)

\* C15 as claimed: once a submission has been made and has resolved, no file is selected.
NoFileAfterSubmission ==
    [][Len(inflight') < Len(inflight) => ~Truthy(selectedFile')]_vars

\* C15 amended: a selected file is held from its selection until the next mode click or
\* file-change event; starting a submission and resolving it leave selectedFile, the
\* file input and the file-name label as they were.
SubmissionKeepsFile ==
    [][Len(inflight') # Len(inflight) =>
          /\ selectedFile' = selectedFile
          /\ inputFiles' = inputFiles
          /\ fileNameDisplay' = fileNameDisplay]_vars

FileKeptAfterSubmission ==
    /\ notification.message = FailedMessage("Failed to fetch")
    /\ notification.display
    /\ inflight = <<>>
    /\ password = ""
    /\ Truthy(selectedFile)
    /\ inputFiles # <<>>

\* C16: a request is bound to the mode, file and password in effect at the submit click.
\* It goes to /encrypt iff the mode at the click was encrypt, it keeps them while the
\* user changes the mode or the selected file, and its default download filename and
\* its success notification are worded from the captured mode and file name.
RequestBoundToClick ==
    [][/\ (SubmitClick /\ Len(inflight') > Len(inflight)) =>
             LET f == inflight'[Len(inflight')]
             IN /\ f.file = selectedFile
                /\ f.password = password
                /\ f.mode = currentMode
                /\ f.endpoint = "/encrypt" <=> currentMode = "encrypt"
                /\ f.endpoint = "/decrypt" <=> currentMode # "encrypt"
       /\ \A i \in 1..Len(inflight) :
             /\ Len(inflight') >= Len(inflight) =>
                   /\ inflight'[i].file = inflight[i].file
                   /\ inflight'[i].password = inflight[i].password
                   /\ inflight'[i].mode = inflight[i].mode
                   /\ inflight'[i].endpoint = inflight[i].endpoint
             /\ (BlobOk(i) /\ ~(inflight[i].header.present /\ inflight[i].header.hasName)) =>
                   /\ download'.filename =
                         DefaultFilename(inflight[i].mode, inflight[i].file.name)
                   /\ notification'.message =
                         [kind |-> " successful! File downloaded as ",
                          action |-> IF inflight[i].mode = "encrypt"
                                     THEN "Encryption" ELSE "Decryption",
                          filename |-> download'.filename]]_vars

\* The mode and the selected file were changed while the request was pending.
ChangedWhilePending ==
    /\ inflight # <<>>
    /\ inflight[1].pc = "blob"
    /\ inflight[1].mode # currentMode
    /\ Truthy(selectedFile)
    /\ inflight[1].file # selectedFile
    /\ inflight[1].filename = DefaultFilename(inflight[1].mode, inflight[1].file.name)

\* C17: the default filename derivations round-trip: the decrypt-mode default name of
\* the file downloaded by an encrypt-mode submission of n is n again.
DefaultNamesRoundTrip ==
    (download.triggered /\ download.mode = "encrypt" /\ NoSuggestedName(download.header)) =>
        DefaultFilename("decrypt", download.filename) = download.file

\* A failure outcome of the call at position i: a rejected fetch, a non-2xx response
\* (its body parsed or not), a failed read of the body.
FailureOutcome(i) ==
    \/ \E msg \in TransportErrors : FetchReject(i, msg)
    \/ JsonSettle(i)
    \/ \E msg \in TransportErrors : BodyReject(i, msg)

\* C18: each accepted submission produces exactly one outcome notification, shown by the
\* step that ends it: a success notification, together with the download under the
\* derived filename, or on any failure an error notification with no download
\* triggered and no object URL left created.
OneOutcomeNotification ==
    [][\A i \in 1..Len(inflight) :
          /\ Len(inflight') < Len(inflight) =>
                /\ timers' = timers + 1
                /\ notification'.display
                /\ notification'.type \in {"success", "error"}
          /\ (Len(inflight') >= Len(inflight) /\ inflight' # inflight) =>
                (notification' = notification /\ timers' = timers)
          /\ BlobOk(i) =>
                /\ notification'.type = "success"
                /\ download'.triggered
                /\ download'.filename = inflight[i].filename
                /\ notification'.message.filename = inflight[i].filename
                /\ download'.url = "revoked"
          /\ FailureOutcome(i) =>
                /\ notification'.type = "error"
                /\ notification'.message.kind = "Failed to process file: "
                /\ download' = download
                /\ download'.url # "live"]_vars

SuccessNotified ==
    /\ notification.type = "success"
    /\ notification.display
    /\ timers = 1
    /\ download.triggered
    /\ notification.message.filename = download.filename
    /\ inflight = <<>>

\* C19: the file-name label is consistent with the selection: it shows the selected
\* file's name exactly when a file is selected, that file being the first of the list
\* the file input holds, and the placeholder exactly when none is selected; an empty
\* list leaves no file selected.
LabelMatchesSelection ==
    /\ Truthy(selectedFile) =>
          /\ inputFiles # <<>>
          /\ selectedFile.name = inputFiles[1]
          /\ fileNameDisplay = [kind |-> "File Selected: ", name |-> inputFiles[1]]
    /\ ~Truthy(selectedFile) =>
          /\ inputFiles = <<>>
          /\ fileNameDisplay = [kind |-> "Drag & drop a file or click to upload"]
    /\ inputFiles = <<>> => ~Truthy(selectedFile)

\* Two different files were selected at once; the first is the selected one.
FirstOfTwoSelected ==
    /\ Len(inputFiles) = 2
    /\ inputFiles[1] # inputFiles[2]
    /\ Truthy(selectedFile)
    /\ selectedFile.name = inputFiles[1]
    /\ fileNameDisplay = [kind |-> "File Selected: ", name |-> inputFiles[1]]

====
